---- MODULE Spec2Model ----
(***************************************************************************)
(* The deployment promotion state machine of                               *)
(* src/sampleFiles/deployment-pipeline.py: DeploymentState,                *)
(* DeploymentContext and DeploymentPipeline (advance, cancel,              *)
(* force_rollback and the per-state policy methods).                       *)
(*                                                                         *)
(* Number representation.  The floats of the context are scaled to         *)
(* integers so that the comparisons of the source stay exact:              *)
(*   test_coverage        in hundredths   (0.8  -> 80)                     *)
(*   canary_error_rate    in thousandths  (0.01 -> 10, 0.05 -> 50)         *)
(*   canary_latency_p99   in milliseconds                                  *)
(*   rollout_percentage   in percent                                       *)
(*   the clock and started_at in days (24 h -> 1)                          *)
(* An Optional value is a sequence: <<>> is None, <<v>> holds v.           *)
(* started_at is <<d>> when it is a naive datetime (of one kind with       *)
(* datetime.utcnow()) and <<d, "UTC">> when it carries a timezone.         *)
(* A history entry is the pair (prev, state); the third component of the   *)
(* source's tuple, the ISO string of the clock reading, is written once    *)
(* and never read, and is left out.                                        *)
(*                                                                         *)
(* now is the latest reading of datetime.utcnow() that the engine has      *)
(* compared with started_at; readings never go back.  last records the     *)
(* latest call on the pipeline: the operation, the pipeline as it was      *)
(* before the call, and what the call returned or raised.  inflight holds  *)
(* the calls of advance that have begun and not returned, each with its    *)
(* position in the method and its local prev; where calls are made one at  *)
(* a time a call is one step and inflight stays Idle.                      *)
(***************************************************************************)
EXTENDS Integers, Sequences, FiniteSets, TLC

VARIABLES state, ctx, history, now, last, inflight

vars == <<state, ctx, history, now, last, inflight>>

(***************************************************************************)
(* DeploymentState                                                         *)
(***************************************************************************)
PENDING == "pending"
VALIDATING == "validating"
VALIDATION_FAILED == "validation_failed"
BUILDING == "building"
BUILD_FAILED == "build_failed"
TESTING == "testing"
TEST_FAILED == "test_failed"
AWAITING_APPROVAL == "awaiting_approval"
APPROVED == "approved"
REJECTED == "rejected"
DEPLOYING_CANARY == "deploying_canary"
CANARY_MONITORING == "canary_monitoring"
CANARY_FAILED == "canary_failed"
ROLLING_OUT == "rolling_out"
ROLLOUT_PAUSED == "rollout_paused"
DEPLOYED == "deployed"
ROLLING_BACK == "rolling_back"
ROLLED_BACK == "rolled_back"
CANCELLED == "cancelled"

DeploymentState ==
    { PENDING, VALIDATING, VALIDATION_FAILED, BUILDING, BUILD_FAILED, TESTING,
      TEST_FAILED, AWAITING_APPROVAL, APPROVED, REJECTED, DEPLOYING_CANARY,
      CANARY_MONITORING, CANARY_FAILED, ROLLING_OUT, ROLLOUT_PAUSED, DEPLOYED,
      ROLLING_BACK, ROLLED_BACK, CANCELLED }

(***************************************************************************)
(* Bounds of the model and the values the context fields are drawn from.   *)
(***************************************************************************)
MaxRetriesBound == 2
MaxApprovals == 3
MaxTime == 2
MaxRepeatedRollbacks == 1
MaxCalls == 4

None == <<>>

\* A datetime that carries a tzinfo.
IsAware(st) == Len(st) = 2

Environments == {"staging", "production"}
CommitShas == {"", "4f2a9c1"}
Coverages == {39, 40, 50, 60, 80}
ErrorRates == {10, 50, 51}
Latencies == {500, 1000, 1001}
RolloutStarts == {0, 30}
StartedAts == {None, <<0>>}

(***************************************************************************)
(* Thresholds of the policy methods, in the scaled units.                  *)
(***************************************************************************)
MigrationCoverage == 80
ProductionCoverage == 60
StagingCoverage == 40
TestCoverage == 50
ErrorThreshold == 10
LatencyThreshold == 500
RolloutErrorThreshold == 50
ApprovalTimeout == 1

(***************************************************************************)
(* DeploymentContext: the dataclass's fields.  The constructor checks      *)
(* nothing.                                                                *)
(***************************************************************************)
DeploymentContext(env, sha, hot, mig, cov, err, lat, app, maxr, retry, pct, st) ==
    [ deployment_id |-> "dep-1", service_name |-> "svc", version |-> "2.0.0",
      environment |-> env, commit_sha |-> sha, author |-> "dev",
      is_hotfix |-> hot, requires_migration |-> mig, test_coverage |-> cov,
      canary_error_rate |-> err, canary_latency_p99 |-> lat,
      approval_count |-> app, max_retries |-> maxr, retry_count |-> retry,
      rollout_percentage |-> pct, previous_version |-> "1.9.0",
      started_at |-> st ]

(***************************************************************************)
(* The policy methods.                                                     *)
(***************************************************************************)
\* Mutant of _validate: production is held to the threshold of staging.
_validateStagingRule(c) ==
    IF c.test_coverage < StagingCoverage THEN VALIDATION_FAILED ELSE BUILDING

\* Mutant of _validate: the migration check is <= where the source has <.
_validateInclusive(c) ==
    IF c.environment = "production"
    THEN IF c.requires_migration /\ ~c.is_hotfix /\ c.test_coverage <= MigrationCoverage
         THEN VALIDATION_FAILED
         ELSE IF c.test_coverage < ProductionCoverage
              THEN VALIDATION_FAILED
              ELSE BUILDING
    ELSE IF c.environment = "staging" /\ c.test_coverage < StagingCoverage
         THEN VALIDATION_FAILED
         ELSE BUILDING

_validate(c) ==
    IF c.environment = "production"
    THEN IF c.requires_migration /\ ~c.is_hotfix /\ c.test_coverage < MigrationCoverage
         THEN VALIDATION_FAILED
         ELSE IF c.test_coverage < ProductionCoverage
              THEN VALIDATION_FAILED
              ELSE BUILDING
    ELSE IF c.environment = "staging" /\ c.test_coverage < StagingCoverage
         THEN VALIDATION_FAILED
         ELSE BUILDING

\* Mutant of _build: the commit is not looked at.
_buildNeverFails(c) == TESTING

_build(c) ==
    IF c.commit_sha = "" THEN BUILD_FAILED ELSE TESTING

\* Mutant of _run_tests: a hotfix skips approval in every environment.
_run_testsHotfixAnywhere(c) ==
    IF c.test_coverage < TestCoverage /\ c.environment = "production"
    THEN TEST_FAILED
    ELSE IF c.is_hotfix THEN APPROVED ELSE AWAITING_APPROVAL

\* Mutant of _run_tests: the comparison is <= where the source has <.
_run_testsInclusive(c) ==
    IF c.test_coverage <= TestCoverage /\ c.environment = "production"
    THEN TEST_FAILED
    ELSE IF c.is_hotfix /\ c.environment = "staging"
         THEN APPROVED
         ELSE AWAITING_APPROVAL

_run_tests(c) ==
    IF c.test_coverage < TestCoverage /\ c.environment = "production"
    THEN TEST_FAILED
    ELSE IF c.is_hotfix /\ c.environment = "staging"
         THEN APPROVED
         ELSE AWAITING_APPROVAL

\* Mutant of required_approvals: the migration branch is missing.
required_approvalsNoMigration(c) ==
    IF c.environment = "production" THEN 2 ELSE 1

required_approvals(c) ==
    IF c.environment = "production"
    THEN IF c.requires_migration THEN 3 ELSE 2
    ELSE 1

\* Mutant of _check_approval: a wait of exactly 24 hours is rejected too.
_check_approvalInclusive(c, t) ==
    IF c.approval_count >= required_approvals(c)
    THEN APPROVED
    ELSE IF c.started_at # None /\ t - c.started_at[1] >= ApprovalTimeout
         THEN REJECTED
         ELSE AWAITING_APPROVAL

\* Mutant of _check_approval: an unset started_at counts as the epoch.
_check_approvalFromEpoch(c, t) ==
    IF c.approval_count >= required_approvals(c)
    THEN APPROVED
    ELSE IF (IF c.started_at = None THEN t ELSE t - c.started_at[1])
                > ApprovalTimeout
         THEN REJECTED
         ELSE AWAITING_APPROVAL

_check_approval(c, t) ==
    IF c.approval_count >= required_approvals(c)
    THEN APPROVED
    ELSE IF c.started_at # None /\ t - c.started_at[1] > ApprovalTimeout
         THEN REJECTED
         ELSE AWAITING_APPROVAL

\* Mutant of _decide_deployment_strategy: a hotfix takes the canary like any
\* other production release.
_decide_deployment_strategyNoHotfix(c) ==
    IF c.environment = "staging" THEN ROLLING_OUT ELSE DEPLOYING_CANARY

\* Mutant of _decide_deployment_strategy: only a migration takes the canary.
_decide_deployment_strategyByMigration(c) ==
    IF c.environment = "staging"
    THEN ROLLING_OUT
    ELSE IF c.is_hotfix
         THEN ROLLING_OUT
         ELSE IF c.requires_migration
              THEN DEPLOYING_CANARY
              ELSE ROLLING_OUT

_decide_deployment_strategy(c) ==
    IF c.environment = "staging"
    THEN ROLLING_OUT
    ELSE IF c.is_hotfix
         THEN ROLLING_OUT
         ELSE IF c.requires_migration
              THEN DEPLOYING_CANARY
              ELSE DEPLOYING_CANARY

\* Mutant of _evaluate_canary: a slow canary is rolled out, not paused.
_evaluate_canaryLenient(c) ==
    IF c.canary_error_rate > ErrorThreshold
    THEN CANARY_FAILED
    ELSE IF c.canary_latency_p99 > LatencyThreshold * 2
         THEN CANARY_FAILED
         ELSE ROLLING_OUT

\* Mutant of _evaluate_canary: a latency of exactly twice the threshold fails.
_evaluate_canaryInclusive(c) ==
    IF c.canary_error_rate > ErrorThreshold
    THEN CANARY_FAILED
    ELSE IF c.canary_latency_p99 > LatencyThreshold
         THEN IF c.canary_latency_p99 >= LatencyThreshold * 2
              THEN CANARY_FAILED
              ELSE ROLLOUT_PAUSED
         ELSE ROLLING_OUT

\* Mutant of _evaluate_canary: the error rate is held against the threshold
\* of the rollout.
_evaluate_canaryRolloutThreshold(c) ==
    IF c.canary_error_rate > RolloutErrorThreshold
    THEN CANARY_FAILED
    ELSE IF c.canary_latency_p99 > LatencyThreshold
         THEN IF c.canary_latency_p99 > LatencyThreshold * 2
              THEN CANARY_FAILED
              ELSE ROLLOUT_PAUSED
         ELSE ROLLING_OUT

_evaluate_canary(c) ==
    IF c.canary_error_rate > ErrorThreshold
    THEN CANARY_FAILED
    ELSE IF c.canary_latency_p99 > LatencyThreshold
         THEN IF c.canary_latency_p99 > LatencyThreshold * 2
              THEN CANARY_FAILED
              ELSE ROLLOUT_PAUSED
         ELSE ROLLING_OUT

\* Mutant of _check_rollout_progress: a complete rollout is not declared
\* DEPLOYED.
_check_rollout_progressNeverDone(c) ==
    IF c.canary_error_rate > RolloutErrorThreshold
    THEN [state |-> ROLLING_BACK, ctx |-> c]
    ELSE [state |-> ROLLING_OUT,
          ctx |-> [c EXCEPT !.rollout_percentage =
                       IF c.rollout_percentage < 25 THEN 25
                       ELSE IF c.rollout_percentage < 50 THEN 50
                       ELSE 100]]

\* Mutant of _check_rollout_progress: the error rate is checked before the
\* percentage.
_check_rollout_progressHealthFirst(c) ==
    IF c.canary_error_rate > RolloutErrorThreshold
    THEN [state |-> ROLLING_BACK, ctx |-> c]
    ELSE IF c.rollout_percentage >= 100
         THEN [state |-> DEPLOYED, ctx |-> c]
         ELSE [state |-> ROLLING_OUT,
               ctx |-> [c EXCEPT !.rollout_percentage =
                            IF c.rollout_percentage < 25 THEN 25
                            ELSE IF c.rollout_percentage < 50 THEN 50
                            ELSE 100]]

\* Mutant of _check_rollout_progress: the step to 25 percent is missing.
_check_rollout_progressSkipsFirstStep(c) ==
    IF c.rollout_percentage >= 100
    THEN [state |-> DEPLOYED, ctx |-> c]
    ELSE IF c.canary_error_rate > RolloutErrorThreshold
         THEN [state |-> ROLLING_BACK, ctx |-> c]
         ELSE [state |-> ROLLING_OUT,
               ctx |-> [c EXCEPT !.rollout_percentage =
                            IF c.rollout_percentage < 50 THEN 50
                            ELSE 100]]

\* Returns the next state and the context after the method's assignment to
\* ctx.rollout_percentage.
_check_rollout_progress(c) ==
    IF c.rollout_percentage >= 100
    THEN [state |-> DEPLOYED, ctx |-> c]
    ELSE IF c.canary_error_rate > RolloutErrorThreshold
         THEN [state |-> ROLLING_BACK, ctx |-> c]
         ELSE [state |-> ROLLING_OUT,
               ctx |-> [c EXCEPT !.rollout_percentage =
                            IF c.rollout_percentage < 25 THEN 25
                            ELSE IF c.rollout_percentage < 50 THEN 50
                            ELSE 100]]

(***************************************************************************)
(* DeploymentPipeline.  A pipeline is the record of its three attributes.  *)
(***************************************************************************)
Pipeline(s, c, h) == [state |-> s, ctx |-> c, history |-> h]

\* __init__
NewPipeline(c) == Pipeline(PENDING, c, <<>>)

\* Mutant of RetryOrCancel: the comparison is <= where the source has <.
RetryOrCancelInclusive(c, again) ==
    IF c.retry_count <= c.max_retries
    THEN [state |-> again, ctx |-> [c EXCEPT !.retry_count = @ + 1]]
    ELSE [state |-> CANCELLED, ctx |-> c]

\* Mutant of RetryOrCancel: the retry is not counted.
RetryOrCancelUncounted(c, again) ==
    IF c.retry_count < c.max_retries
    THEN [state |-> again, ctx |-> c]
    ELSE [state |-> CANCELLED, ctx |-> c]

\* The retry branch of VALIDATION_FAILED and of BUILD_FAILED: back to the
\* state again with one more retry counted, or CANCELLED.
RetryOrCancel(c, again) ==
    IF c.retry_count < c.max_retries
    THEN [state |-> again, ctx |-> [c EXCEPT !.retry_count = @ + 1]]
    ELSE [state |-> CANCELLED, ctx |-> c]

\* Mutant of Stay: the DEPLOYED branch falls through to the one of
\* ROLLING_BACK.
StayFallsThrough(prev, c) ==
    [state |-> IF prev = DEPLOYED THEN ROLLED_BACK ELSE prev, ctx |-> c]

\* Mutant of Stay: a paused rollout resumes at the next call.
StayUntilPolled(prev, c) ==
    [state |-> IF prev = ROLLOUT_PAUSED THEN ROLLING_OUT ELSE prev, ctx |-> c]

\* Mutant of Stay: a paused rollout resumes once the latency is back under
\* the threshold.
StayResumes(prev, c) ==
    [state |-> IF prev = ROLLOUT_PAUSED /\ c.canary_latency_p99 <= LatencyThreshold
               THEN ROLLING_OUT
               ELSE prev,
     ctx |-> c]

\* A branch that is "pass": ROLLOUT_PAUSED, DEPLOYED, ROLLED_BACK, CANCELLED.
Stay(prev, c) == [state |-> prev, ctx |-> c]

\* The branch of advance's if/elif chain taken in state prev: the state and
\* the context it leaves.
Transition(prev, c, t) ==
    CASE prev = PENDING -> [state |-> VALIDATING, ctx |-> c]
      [] prev = VALIDATING -> [state |-> _validate(c), ctx |-> c]
      [] prev = VALIDATION_FAILED -> RetryOrCancel(c, VALIDATING)
      [] prev = BUILDING -> [state |-> _build(c), ctx |-> c]
      [] prev = BUILD_FAILED -> RetryOrCancel(c, BUILDING)
      [] prev = TESTING -> [state |-> _run_tests(c), ctx |-> c]
      [] prev = TEST_FAILED -> [state |-> CANCELLED, ctx |-> c]
      [] prev = AWAITING_APPROVAL -> [state |-> _check_approval(c, t), ctx |-> c]
      [] prev = APPROVED -> [state |-> _decide_deployment_strategy(c), ctx |-> c]
      [] prev = REJECTED -> [state |-> CANCELLED, ctx |-> c]
      [] prev = DEPLOYING_CANARY -> [state |-> CANARY_MONITORING, ctx |-> c]
      [] prev = CANARY_MONITORING -> [state |-> _evaluate_canary(c), ctx |-> c]
      [] prev = CANARY_FAILED -> [state |-> ROLLING_BACK, ctx |-> c]
      [] prev = ROLLING_OUT -> _check_rollout_progress(c)
      [] prev = ROLLOUT_PAUSED -> Stay(prev, c)
      [] prev = DEPLOYED -> Stay(prev, c)
      [] prev = ROLLING_BACK -> [state |-> ROLLED_BACK, ctx |-> c]
      [] prev \in {ROLLED_BACK, CANCELLED} -> Stay(prev, c)

\* Mutant of Record: the entry is appended whether or not the state changed.
RecordAlways(h, prev, s) == Append(h, <<prev, s>>)

\* The history after a call of advance that started in prev and ended in s.
Record(h, prev, s) == IF s # prev THEN Append(h, <<prev, s>>) ELSE h

\* Mutant of advance: the state to leave is taken from the last history
\* entry, not from self.state.
advanceFromHistory(p, t) ==
    LET prev == IF p.history = <<>> THEN PENDING ELSE p.history[Len(p.history)][2]
        r == Transition(prev, p.ctx, t)
    IN  Pipeline(r.state, r.ctx, Record(p.history, prev, r.state))

\* Mutant of advance: failed tests are retried like a failed build.
advanceRetriesTests(p, t) ==
    LET prev == p.state
        r == IF prev = TEST_FAILED
             THEN RetryOrCancel(p.ctx, TESTING)
             ELSE Transition(prev, p.ctx, t)
    IN  Pipeline(r.state, r.ctx, Record(p.history, prev, r.state))

\* advance, on pipeline p with clock reading t: the pipeline it leaves.  The
\* value returned is the state of that pipeline.
advance(p, t) ==
    LET prev == p.state
        r == Transition(prev, p.ctx, t)
    IN  Pipeline(r.state, r.ctx, Record(p.history, prev, r.state))

\* Mutant of cancellable: a rollback can be cancelled too.
cancellable_with_rollback ==
    { PENDING, VALIDATING, VALIDATION_FAILED, BUILDING, BUILD_FAILED, TESTING,
      AWAITING_APPROVAL, ROLLOUT_PAUSED, ROLLING_BACK }

\* Mutant of cancellable: a deployment whose canary is being deployed can be
\* cancelled too.
cancellable_with_canary ==
    { PENDING, VALIDATING, VALIDATION_FAILED, BUILDING, BUILD_FAILED, TESTING,
      AWAITING_APPROVAL, ROLLOUT_PAUSED, DEPLOYING_CANARY }

cancellable ==
    { PENDING, VALIDATING, VALIDATION_FAILED, BUILDING, BUILD_FAILED, TESTING,
      AWAITING_APPROVAL, ROLLOUT_PAUSED }

\* Mutant of CancelRaises: a release whose rollout has begun is not
\* cancelled either.
CancelRaisesOnceRolledOut(p) ==
    p.state \notin cancellable \/ p.ctx.rollout_percentage > 0

CancelRaises(p) == p.state \notin cancellable

\* Mutant of cancel: no entry is appended.
cancelUnrecorded(p) == Pipeline(CANCELLED, p.ctx, p.history)

\* Mutant of cancel: the rollout percentage is reset.
cancelResetsRollout(p) ==
    Pipeline(CANCELLED, [p.ctx EXCEPT !.rollout_percentage = 0],
             Append(p.history, <<p.state, CANCELLED>>))

\* cancel, past its guard.
cancel(p) ==
    Pipeline(CANCELLED, p.ctx, Append(p.history, <<p.state, CANCELLED>>))

\* Mutant of RollbackRaises: PENDING is missing from the tuple.
RollbackRaisesNotPending(p) == p.state \in {CANCELLED, ROLLED_BACK}

\* Mutant of RollbackRaises: CANCELLED is missing from the tuple.
RollbackRaisesNotCancelled(p) == p.state \in {ROLLED_BACK, PENDING}

RollbackRaises(p) == p.state \in {CANCELLED, ROLLED_BACK, PENDING}

\* Mutant of force_rollback: the context is put back on the previous version.
force_rollbackRestoresVersion(p) ==
    Pipeline(ROLLING_BACK, [p.ctx EXCEPT !.version = p.ctx.previous_version],
             Append(p.history, <<p.state, ROLLING_BACK>>))

\* force_rollback, past its guard.
force_rollback(p) ==
    Pipeline(ROLLING_BACK, p.ctx, Append(p.history, <<p.state, ROLLING_BACK>>))

(***************************************************************************)
(* The state of the model: one pipeline, the clock, the latest call.       *)
(***************************************************************************)
Me == Pipeline(state, ctx, history)

\* The callers of one pipeline, and inflight when none of them is inside
\* advance: pc is the caller's position, prev its local variable of line 57,
\* again the state its retry branch returns to, overlapped whether a call
\* has ever begun or run while another was inside advance, calls the number
\* of calls made where callers may overlap.
Callers == {"A", "B"}

Idle ==
    [ pc |-> [a \in Callers |-> "idle"],
      prev |-> [a \in Callers |-> PENDING],
      again |-> [a \in Callers |-> PENDING],
      overlapped |-> FALSE,
      calls |-> 0 ]

Called(op, p, res) == [op |-> op, before |-> p, result |-> res]

NoCall == Called("none", Pipeline(PENDING, <<>>, <<>>), "none")

Install(p) ==
    /\ state' = p.state
    /\ ctx' = p.ctx
    /\ history' = p.history

\* A context as the caller passes it to the constructor: within the
\* documented ranges, no approval given yet and the canary metrics at their
\* lowest values.
InitialContexts ==
    { DeploymentContext(env, sha, hot, mig, cov, 10, 500, 0, maxr, retry, pct, st) :
        env \in Environments, sha \in CommitShas, hot \in BOOLEAN, mig \in BOOLEAN,
        cov \in Coverages, maxr \in 0..MaxRetriesBound,
        retry \in 0..MaxRetriesBound, pct \in RolloutStarts, st \in StartedAts }

Init ==
    /\ \E c \in InitialContexts :
          /\ c.retry_count <= c.max_retries
          /\ state = NewPipeline(c).state
          /\ ctx = NewPipeline(c).ctx
          /\ history = NewPipeline(c).history
    /\ now = 0
    /\ last = NoCall
    /\ inflight = Idle

\* The clock is read for the approval timeout alone (_check_approval, past
\* the quorum check and with started_at set).
ReadsClock(p) ==
    /\ p.state = AWAITING_APPROVAL
    /\ p.ctx.approval_count < required_approvals(p.ctx)
    /\ p.ctx.started_at # None

\* advance raises TypeError where _check_approval subtracts a started_at
\* that carries a timezone from the naive datetime.utcnow().
AdvanceRaises(p) == ReadsClock(p) /\ IsAware(p.ctx.started_at)

\* A call of advance: it raises TypeError before it has assigned anything,
\* or returns the state.  t is the reading of the clock during the call.
Advance ==
    /\ IF AdvanceRaises(Me)
       THEN /\ UNCHANGED <<state, ctx, history, now>>
            /\ last' = Called("advance", Me, "TypeError")
       ELSE \E t \in now..MaxTime :
               /\ t # now => ReadsClock(Me)
               /\ Install(advance(Me, t))
               /\ now' = t
               /\ last' = Called("advance", Me, advance(Me, t).state)
    /\ UNCHANGED inflight

\* A call of cancel: it raises ValueError, or returns None.
Cancel ==
    /\ IF CancelRaises(Me)
       THEN /\ UNCHANGED <<state, ctx, history>>
            /\ last' = Called("cancel", Me, "ValueError")
       ELSE /\ Install(cancel(Me))
            /\ last' = Called("cancel", Me, "None")
    /\ UNCHANGED <<now, inflight>>

\* The rollbacks forced on a pipeline that was rolling back already.
RepeatedRollbacks(h) ==
    Cardinality({ i \in DOMAIN h : h[i] = <<ROLLING_BACK, ROLLING_BACK>> })

\* A call of force_rollback: it raises ValueError, or returns None.
ForceRollback ==
    /\ state = ROLLING_BACK => RepeatedRollbacks(history) < MaxRepeatedRollbacks
    /\ IF RollbackRaises(Me)
       THEN /\ UNCHANGED <<state, ctx, history>>
            /\ last' = Called("force_rollback", Me, "ValueError")
       ELSE /\ Install(force_rollback(Me))
            /\ last' = Called("force_rollback", Me, "None")
    /\ UNCHANGED <<now, inflight>>

(***************************************************************************)
(* The collaborators that write the context between calls.                 *)
(***************************************************************************)
\* The approval UI counts one more approval while the release waits for it.
Approve ==
    /\ state = AWAITING_APPROVAL
    /\ ctx.approval_count < MaxApprovals
    /\ ctx' = [ctx EXCEPT !.approval_count = @ + 1]
    /\ last' = NoCall
    /\ UNCHANGED <<state, history, now, inflight>>

\* The canary probe reports the error rate of the canary or of the rollout.
ProbeErrorRate ==
    /\ state \in {CANARY_MONITORING, ROLLING_OUT}
    /\ \E err \in ErrorRates : ctx' = [ctx EXCEPT !.canary_error_rate = err]
    /\ last' = NoCall
    /\ UNCHANGED <<state, history, now, inflight>>

\* The canary probe reports the latency of the canary.
ProbeLatency ==
    /\ state = CANARY_MONITORING
    /\ \E lat \in Latencies : ctx' = [ctx EXCEPT !.canary_latency_p99 = lat]
    /\ last' = NoCall
    /\ UNCHANGED <<state, history, now, inflight>>

\* The test system reports the coverage it measured.
MeasureCoverage ==
    /\ state = TESTING
    /\ \E cov \in Coverages : ctx' = [ctx EXCEPT !.test_coverage = cov]
    /\ last' = NoCall
    /\ UNCHANGED <<state, history, now, inflight>>

Next ==
    \/ Advance
    \/ Cancel
    \/ ForceRollback
    \/ Approve
    \/ ProbeErrorRate
    \/ ProbeLatency
    \/ MeasureCoverage

Spec == Init /\ [][Next]_vars

(***************************************************************************)
(* Properties.                                                             *)
(***************************************************************************)
\* The edges of advance: the pairs (state, next state) its branches can
\* commit.
TransitionTable ==
    { <<PENDING, VALIDATING>>,
      <<VALIDATING, VALIDATION_FAILED>>, <<VALIDATING, BUILDING>>,
      <<VALIDATION_FAILED, VALIDATING>>, <<VALIDATION_FAILED, CANCELLED>>,
      <<BUILDING, BUILD_FAILED>>, <<BUILDING, TESTING>>,
      <<BUILD_FAILED, BUILDING>>, <<BUILD_FAILED, CANCELLED>>,
      <<TESTING, TEST_FAILED>>, <<TESTING, APPROVED>>, <<TESTING, AWAITING_APPROVAL>>,
      <<TEST_FAILED, CANCELLED>>,
      <<AWAITING_APPROVAL, APPROVED>>, <<AWAITING_APPROVAL, REJECTED>>,
      <<APPROVED, ROLLING_OUT>>, <<APPROVED, DEPLOYING_CANARY>>,
      <<REJECTED, CANCELLED>>,
      <<DEPLOYING_CANARY, CANARY_MONITORING>>,
      <<CANARY_MONITORING, CANARY_FAILED>>, <<CANARY_MONITORING, ROLLOUT_PAUSED>>,
      <<CANARY_MONITORING, ROLLING_OUT>>,
      <<CANARY_FAILED, ROLLING_BACK>>,
      <<ROLLING_OUT, DEPLOYED>>, <<ROLLING_OUT, ROLLING_BACK>>,
      <<ROLLING_BACK, ROLLED_BACK>> }

Absorbing == {DEPLOYED, ROLLED_BACK, CANCELLED}

\* C1: a call of advance commits at most one edge of the transition table,
\* returns the state the pipeline is in after the call, and appends exactly
\* the entry (state before, state after) when the state changed and nothing
\* when it did not.
C1_AdvanceCommitsOneEdge ==
    last.op = "advance" =>
        /\ last.result = state
        /\ IF state # last.before.state
           THEN /\ <<last.before.state, state>> \in TransitionTable
                /\ history = Append(last.before.history, <<last.before.state, state>>)
           ELSE history = last.before.history

\* A call of advance that changed the state: the tests failed and the next
\* call cancelled the deployment.
C1_Witness ==
    /\ last.op = "advance"
    /\ last.before.state = TEST_FAILED
    /\ state = CANCELLED
    /\ Len(history) = Len(last.before.history) + 1

\* The states cancel is documented to accept.
CancelAllowed ==
    { PENDING, VALIDATING, VALIDATION_FAILED, BUILDING, BUILD_FAILED, TESTING,
      AWAITING_APPROVAL, ROLLOUT_PAUSED }

\* C2: cancel succeeds exactly from the eight states of CancelAllowed: the
\* state becomes CANCELLED and one entry is appended.  From the other eleven
\* states it raises, and the state and the history are as they were.
C2_CancelGuard ==
    last.op = "cancel" =>
        IF last.before.state \in CancelAllowed
        THEN /\ last.result = "None"
             /\ state = CANCELLED
             /\ history = Append(last.before.history, <<last.before.state, CANCELLED>>)
        ELSE /\ last.result = "ValueError"
             /\ state = last.before.state
             /\ history = last.before.history

\* cancel was called while the canary was being deployed, and raised.
C2_Witness ==
    /\ last.op = "cancel"
    /\ last.result = "ValueError"
    /\ last.before.state = DEPLOYING_CANARY
    /\ state = DEPLOYING_CANARY

\* C3: force_rollback succeeds from every state but PENDING, CANCELLED and
\* ROLLED_BACK: the state becomes ROLLING_BACK and an entry is appended.  From
\* those three it raises, the state is unchanged and no entry is written.
C3_ForceRollbackGuard ==
    last.op = "force_rollback" =>
        IF last.before.state \in {PENDING, CANCELLED, ROLLED_BACK}
        THEN /\ last.result = "ValueError"
             /\ state = last.before.state
             /\ history = last.before.history
        ELSE /\ last.result = "None"
             /\ state = ROLLING_BACK
             /\ history = Append(last.before.history, <<last.before.state, ROLLING_BACK>>)

\* A deployed release was rolled back by force.
C3_Witness ==
    /\ last.op = "force_rollback"
    /\ last.result = "None"
    /\ last.before.state = DEPLOYED
    /\ state = ROLLING_BACK

\* C4: in DEPLOYED, ROLLED_BACK and CANCELLED advance returns the same state,
\* appends nothing and changes no context field.
C4_Absorption ==
    (last.op = "advance" /\ last.before.state \in Absorbing) =>
        /\ last.result = last.before.state
        /\ state = last.before.state
        /\ history = last.before.history
        /\ ctx = last.before.ctx

\* advance was called on a deployed release.
C4_Witness ==
    /\ last.op = "advance"
    /\ last.before.state = DEPLOYED
    /\ state = DEPLOYED

\* C5 as claimed: once the state is DEPLOYED, ROLLED_BACK or CANCELLED, no
\* call puts the pipeline in a different state.
C5_NeverResurrected ==
    (last.op # "none" /\ last.before.state \in Absorbing) =>
        state = last.before.state

\* C5 as amended: ROLLED_BACK and CANCELLED are never left; DEPLOYED is left
\* by a successful force_rollback alone, for ROLLING_BACK.
C5_TerminalExceptForcedRollback ==
    last.op # "none" =>
        /\ last.before.state \in {ROLLED_BACK, CANCELLED} => state = last.before.state
        /\ last.before.state = DEPLOYED =>
              \/ state = DEPLOYED
              \/ last.op = "force_rollback" /\ state = ROLLING_BACK

\* force_rollback was refused on a cancelled deployment.
C5_Witness ==
    /\ last.op = "force_rollback"
    /\ last.before.state = CANCELLED
    /\ state = CANCELLED

\* Histories other than h that a pipeline in the same state may carry: none,
\* h without its last entry, h without its first entry, and h written twice.
OtherHistories(h) ==
    { <<>>, h \o h } \cup
        (IF h = <<>> THEN {} ELSE { SubSeq(h, 1, Len(h) - 1), Tail(h) })

\* C6: advance is a function of the state and the context, and of the clock
\* in AWAITING_APPROVAL alone: a second pipeline with the same state, the
\* same context and the same clock reading, whatever its history holds, is
\* left by advance in the same state with the same context; outside
\* AWAITING_APPROVAL the clock reading makes no difference.
C6_HistoryNeverRead ==
    LET mine == advance(Me, now)
    IN  /\ \A h \in OtherHistories(history) :
              LET other == advance(Pipeline(state, ctx, h), now)
              IN  other.state = mine.state /\ other.ctx = mine.ctx
        /\ state # AWAITING_APPROVAL =>
              \A t \in 0..MaxTime : advance(Me, t) = mine

\* advance took a pipeline with a history of several entries from
\* ROLLING_BACK to the state it takes a new pipeline's empty history to.
C6_Witness ==
    /\ last.op = "advance"
    /\ last.before.state = ROLLING_BACK
    /\ Len(last.before.history) > 2
    /\ state = advance(Pipeline(ROLLING_BACK, last.before.ctx, <<>>), now).state

\* C7 as claimed: a second call of advance right after the first, the context
\* untouched in between, returns the state the first returned and appends no
\* entry.
C7_SecondCallSame ==
    last.op = "advance" =>
        /\ advance(Me, now).state = last.result
        /\ advance(Me, now).history = history

\* C7 as amended: when a call of advance returned the state it started in
\* and left the context as it was, a second call right after it (same
\* context, same clock reading) returns that state again and appends no
\* entry.
C7_SecondCallSameAtRest ==
    (last.op = "advance" /\ last.result = last.before.state /\ ctx = last.before.ctx) =>
        /\ advance(Me, now).state = last.result
        /\ advance(Me, now).history = history

\* advance was called on a release that waits for approvals and left it
\* waiting.
C7_Witness ==
    /\ last.op = "advance"
    /\ last.before.state = AWAITING_APPROVAL
    /\ last.result = AWAITING_APPROVAL
    /\ ctx = last.before.ctx

\* h is g, or g with one entry appended.
ExtendsByAtMostOne(g, h) ==
    \/ h = g
    \/ Len(h) = Len(g) + 1 /\ SubSeq(h, 1, Len(g)) = g

\* C8: history is append-only, a call adds at most one entry, and every
\* entry records a change of state (its fromState differs from its toState).
C8_HistoryRecordsChanges ==
    /\ last.op # "none" => ExtendsByAtMostOne(last.before.history, history)
    /\ \A i \in DOMAIN history : history[i][1] # history[i][2]

\* C9: retry_count stays within 0..max_retries, and no call lowers it.
C9_RetryCountBounded ==
    /\ 0 <= ctx.retry_count
    /\ ctx.retry_count <= ctx.max_retries
    /\ last.op # "none" =>
          /\ ctx.retry_count >= last.before.ctx.retry_count
          /\ ctx.max_retries = last.before.ctx.max_retries

\* The last retry that max_retries = 2 allows was spent.
C9_Witness ==
    /\ last.op = "advance"
    /\ last.before.state = VALIDATION_FAILED
    /\ state = VALIDATING
    /\ last.before.ctx.retry_count = 1
    /\ ctx.retry_count = 2
    /\ ctx.max_retries = 2

(***************************************************************************)
(* Repeated advance on a new pipeline whose retry_count is 0, the context  *)
(* left alone by everyone else.                                            *)
(***************************************************************************)
InitNoRetries == Init /\ ctx.retry_count = 0

RetrySpec == InitNoRetries /\ [][Advance]_vars /\ WF_vars(Advance)

\* The entries of h that enter VALIDATING.
ValidatingAttempts(h) ==
    Cardinality({ i \in DOMAIN h : h[i][2] = VALIDATING })

\* C10: with retry_count 0 at first and a coverage that fails validation,
\* repeated advance enters VALIDATING max_retries + 1 times and never once
\* more, and then reaches CANCELLED.
C10_RetryBound ==
    /\ [](_validate(ctx) = VALIDATION_FAILED =>
            /\ ValidatingAttempts(history) <= ctx.max_retries + 1
            /\ state = CANCELLED => ValidatingAttempts(history) = ctx.max_retries + 1)
    /\ (_validate(ctx) = VALIDATION_FAILED) ~> (state = CANCELLED)

\* With max_retries = 2 the deployment was cancelled after three attempts.
C10_Witness ==
    /\ _validate(ctx) = VALIDATION_FAILED
    /\ ctx.max_retries = 2
    /\ state = CANCELLED
    /\ ValidatingAttempts(history) = 3

\* A call of advance made in state s.
AdvancedFrom(s) == last.op = "advance" /\ last.before.state = s

\* C11: advance from VALIDATING yields VALIDATION_FAILED exactly when the
\* environment is production, a migration is required, the release is no
\* hotfix and the coverage is below 0.8, or the environment is production
\* and the coverage is below 0.6, or the environment is staging and the
\* coverage is below 0.4; in every other case it yields BUILDING.  A coverage
\* of exactly 0.8, 0.6 or 0.4 passes.
C11_ValidationPolicy ==
    AdvancedFrom(VALIDATING) =>
        LET c == last.before.ctx
            fails ==
                \/ /\ c.environment = "production"
                   /\ c.requires_migration
                   /\ ~c.is_hotfix
                   /\ c.test_coverage < 80
                \/ c.environment = "production" /\ c.test_coverage < 60
                \/ c.environment = "staging" /\ c.test_coverage < 40
        IN  state = IF fails THEN VALIDATION_FAILED ELSE BUILDING

\* A production migration with a coverage of exactly 0.8 passed validation.
C11_Witness ==
    /\ AdvancedFrom(VALIDATING)
    /\ ctx.environment = "production"
    /\ ctx.requires_migration
    /\ ~ctx.is_hotfix
    /\ ctx.test_coverage = 80
    /\ state = BUILDING

\* The quorum: 3 for production with a migration, 2 for production, else 1.
Quorum(c) ==
    IF c.environment = "production" /\ c.requires_migration THEN 3
    ELSE IF c.environment = "production" THEN 2
    ELSE 1

\* The clock reading t is more than 24 hours past c.started_at.
TimedOut(c, t) == c.started_at # None /\ t - c.started_at[1] > 1

\* C12 as claimed: advance moves AWAITING_APPROVAL to APPROVED if and only
\* if approval_count >= quorum; production with a migration and two
\* approvals stays in AWAITING_APPROVAL with no history entry.
C12_QuorumGating ==
    AdvancedFrom(AWAITING_APPROVAL) =>
        LET c == last.before.ctx
        IN  /\ state = APPROVED <=> c.approval_count >= Quorum(c)
            /\ (c.environment = "production" /\ c.requires_migration
                    /\ c.approval_count = 2) =>
                  state = AWAITING_APPROVAL /\ history = last.before.history

\* C12 as amended: the same, but production with a migration and two
\* approvals stays in AWAITING_APPROVAL only while the approval timeout has
\* not passed; once it has, the call yields REJECTED.
C12_QuorumGatingWithinTimeout ==
    AdvancedFrom(AWAITING_APPROVAL) =>
        LET c == last.before.ctx
        IN  /\ state = APPROVED <=> c.approval_count >= Quorum(c)
            /\ (c.environment = "production" /\ c.requires_migration
                    /\ c.approval_count = 2) =>
                  IF TimedOut(c, now)
                  THEN state = REJECTED
                  ELSE state = AWAITING_APPROVAL /\ history = last.before.history

\* A production migration with two approvals was left waiting.
C12_Witness ==
    /\ AdvancedFrom(AWAITING_APPROVAL)
    /\ ctx.environment = "production"
    /\ ctx.requires_migration
    /\ ctx.approval_count = 2
    /\ state = AWAITING_APPROVAL

\* C13: a call of advance in AWAITING_APPROVAL below quorum yields REJECTED
\* exactly when started_at is set and more than 24 hours have passed since;
\* a call of advance in REJECTED yields CANCELLED; with quorum met the call
\* yields APPROVED whatever the clock reads; REJECTED is entered by a call
\* of advance in AWAITING_APPROVAL and in no other way.
C13_ApprovalTimeout ==
    /\ (AdvancedFrom(AWAITING_APPROVAL)
            /\ last.before.ctx.approval_count < Quorum(last.before.ctx)) =>
          (state = REJECTED <=> TimedOut(last.before.ctx, now))
    /\ AdvancedFrom(REJECTED) => state = CANCELLED
    /\ (state = AWAITING_APPROVAL /\ ctx.approval_count >= Quorum(ctx)) =>
          \A t \in 0..MaxTime : advance(Me, t).state = APPROVED
    /\ (state = REJECTED /\ last.before.state # REJECTED) =>
          AdvancedFrom(AWAITING_APPROVAL)

\* A release that waited below quorum for more than 24 hours was rejected.
C13_Witness ==
    /\ AdvancedFrom(AWAITING_APPROVAL)
    /\ ctx.approval_count < Quorum(ctx)
    /\ TimedOut(ctx, now)
    /\ state = REJECTED

\* C14 as claimed: whenever the machine is in AWAITING_APPROVAL started_at
\* holds a timestamp, and no operation changes a started_at that is set.
\* The engine never assigns started_at, so a context built without one
\* waits for approval with started_at = None.
C14_StartedAtSetOnApprovalFlow ==
    /\ state = AWAITING_APPROVAL => ctx.started_at # None
    /\ (last.op # "none" /\ last.before.ctx.started_at # None) =>
          ctx.started_at = last.before.ctx.started_at

\* C15: with started_at unset and approval_count below quorum, a call of
\* advance in AWAITING_APPROVAL leaves the state (and the history) as it
\* is, whatever the clock reads and also when called again; with
\* started_at unset AWAITING_APPROVAL is left only by advance with quorum
\* met, by cancel or by force_rollback.
C15_NoTimeoutWithoutStartedAt ==
    /\ (state = AWAITING_APPROVAL /\ ctx.started_at = None
            /\ ctx.approval_count < Quorum(ctx)) =>
          \A t \in 0..MaxTime : \A u \in t..MaxTime :
              LET first  == advance(Me, t)
                  second == advance(first, u)
              IN  /\ first.state = AWAITING_APPROVAL
                  /\ first.history = history
                  /\ second = first
    /\ (AdvancedFrom(AWAITING_APPROVAL) /\ last.before.ctx.started_at = None
            /\ last.before.ctx.approval_count < Quorum(last.before.ctx)) =>
          state = AWAITING_APPROVAL /\ history = last.before.history
    /\ (last.op # "none" /\ last.before.state = AWAITING_APPROVAL
            /\ last.before.ctx.started_at = None
            /\ state # AWAITING_APPROVAL) =>
          \/ /\ last.op = "advance"
             /\ last.before.ctx.approval_count >= Quorum(last.before.ctx)
             /\ state = APPROVED
          \/ last.op = "cancel" /\ state = CANCELLED
          \/ last.op = "force_rollback" /\ state = ROLLING_BACK

\* A release without started_at was polled below quorum and went on waiting.
C15_Witness ==
    /\ AdvancedFrom(AWAITING_APPROVAL)
    /\ ctx.started_at = None
    /\ ctx.approval_count < Quorum(ctx)
    /\ state = AWAITING_APPROVAL

\* C16: a call of advance in TESTING yields TEST_FAILED when the
\* environment is production and the coverage is below 0.5; otherwise
\* APPROVED when the release is a hotfix for staging; otherwise
\* AWAITING_APPROVAL.  It is one call, with one history entry from TESTING
\* to the state it yields.
C16_TestingPolicy ==
    AdvancedFrom(TESTING) =>
        LET c == last.before.ctx
        IN  /\ state =
                  IF c.environment = "production" /\ c.test_coverage < 50
                  THEN TEST_FAILED
                  ELSE IF c.is_hotfix /\ c.environment = "staging"
                       THEN APPROVED
                       ELSE AWAITING_APPROVAL
            /\ history = Append(last.before.history, <<TESTING, state>>)

\* A hotfix for staging went from TESTING to APPROVED in one call.
C16_Witness ==
    /\ AdvancedFrom(TESTING)
    /\ ctx.is_hotfix
    /\ ctx.environment = "staging"
    /\ state = APPROVED

\* C17: a call of advance in APPROVED always changes the state: to
\* ROLLING_OUT when the environment is staging or the release is a hotfix,
\* to DEPLOYING_CANARY in every other case; the same call on a context that
\* differs in requires_migration alone yields the same state.
C17_ApprovedMovesOn ==
    AdvancedFrom(APPROVED) =>
        LET c     == last.before.ctx
            other == [c EXCEPT !.requires_migration = ~@]
        IN  /\ state # APPROVED
            /\ state = IF c.environment = "staging" \/ c.is_hotfix
                       THEN ROLLING_OUT
                       ELSE DEPLOYING_CANARY
            /\ advance(Pipeline(APPROVED, other, last.before.history),
                       now).state = state

\* A production release that is neither hotfix nor migration took the canary.
C17_Witness ==
    /\ AdvancedFrom(APPROVED)
    /\ ctx.environment = "production"
    /\ ~ctx.is_hotfix
    /\ ~ctx.requires_migration
    /\ state = DEPLOYING_CANARY

\* C18: a call of advance in CANARY_MONITORING yields CANARY_FAILED when
\* the error rate is above 0.01; otherwise CANARY_FAILED when the p99
\* latency is above 1000; otherwise ROLLOUT_PAUSED when it is above 500;
\* otherwise ROLLING_OUT.  The comparisons are strict.
C18_CanaryEvaluation ==
    AdvancedFrom(CANARY_MONITORING) =>
        LET c == last.before.ctx
        IN  state = IF c.canary_error_rate > 10 THEN CANARY_FAILED
                    ELSE IF c.canary_latency_p99 > 1000 THEN CANARY_FAILED
                    ELSE IF c.canary_latency_p99 > 500 THEN ROLLOUT_PAUSED
                    ELSE ROLLING_OUT

\* A canary with an error rate of exactly 0.01 and a latency of exactly 1000
\* was paused.
C18_Witness ==
    /\ AdvancedFrom(CANARY_MONITORING)
    /\ ctx.canary_error_rate = 10
    /\ ctx.canary_latency_p99 = 1000
    /\ state = ROLLOUT_PAUSED

\* The three entries a failed canary leaves in the history.
CanaryRollbackEntries ==
    << <<CANARY_MONITORING, CANARY_FAILED>>,
       <<CANARY_FAILED, ROLLING_BACK>>,
       <<ROLLING_BACK, ROLLED_BACK>> >>

\* C19: in CANARY_MONITORING with an error rate above 0.01, three successive
\* calls of advance yield CANARY_FAILED, ROLLING_BACK and ROLLED_BACK, each
\* call adding one history entry, whatever the other context fields are.
C19_CanaryRollback ==
    (state = CANARY_MONITORING /\ ctx.canary_error_rate > 10) =>
        LET first  == advance(Me, now)
            second == advance(first, now)
            third  == advance(second, now)
        IN  /\ first.state = CANARY_FAILED
            /\ second.state = ROLLING_BACK
            /\ third.state = ROLLED_BACK
            /\ first.history = Append(history, CanaryRollbackEntries[1])
            /\ second.history = Append(first.history, CanaryRollbackEntries[2])
            /\ third.history = Append(second.history, CanaryRollbackEntries[3])

\* The third of the three calls has returned.
C19_Witness ==
    /\ AdvancedFrom(ROLLING_BACK)
    /\ state = ROLLED_BACK
    /\ ctx.canary_error_rate > 10
    /\ Len(history) >= 3
    /\ SubSeq(history, Len(history) - 2, Len(history)) = CanaryRollbackEntries

\* C20: in ROLLING_OUT with rollout_percentage = 0 and an error rate of at
\* most 0.05, four successive calls of advance leave the percentage at 25,
\* 50 and 100 with the state still ROLLING_OUT (and the history as it was),
\* and the fourth yields DEPLOYED; a call of advance in ROLLING_OUT takes a
\* percentage of {0, 25, 50, 100} to a percentage of that set.
C20_StagedRollout ==
    /\ (state = ROLLING_OUT /\ ctx.rollout_percentage = 0
            /\ ctx.canary_error_rate <= 50) =>
          LET first  == advance(Me, now)
              second == advance(first, now)
              third  == advance(second, now)
              fourth == advance(third, now)
          IN  /\ first.state = ROLLING_OUT
              /\ first.ctx.rollout_percentage = 25
              /\ second.state = ROLLING_OUT
              /\ second.ctx.rollout_percentage = 50
              /\ third.state = ROLLING_OUT
              /\ third.ctx.rollout_percentage = 100
              /\ third.history = history
              /\ fourth.state = DEPLOYED
              /\ fourth.ctx.rollout_percentage = 100
              /\ fourth.history = Append(history, <<ROLLING_OUT, DEPLOYED>>)
    /\ (AdvancedFrom(ROLLING_OUT)
            /\ last.before.ctx.rollout_percentage \in {0, 25, 50, 100}) =>
          ctx.rollout_percentage \in {0, 25, 50, 100}

\* The second step of a rollout that began at 0 percent has been taken.
C20_Witness ==
    /\ AdvancedFrom(ROLLING_OUT)
    /\ last.before.ctx.rollout_percentage = 25
    /\ ctx.rollout_percentage = 50
    /\ ctx.canary_error_rate <= 50
    /\ state = ROLLING_OUT

\* C21: a call of advance in ROLLING_OUT with rollout_percentage below 100
\* and an error rate above 0.05 yields ROLLING_BACK and leaves the context
\* as it was; with rollout_percentage at 100 or more it yields DEPLOYED,
\* whatever the error rate is.
C21_RolloutHealthCheck ==
    AdvancedFrom(ROLLING_OUT) =>
        LET c == last.before.ctx
        IN  /\ (c.rollout_percentage < 100 /\ c.canary_error_rate > 50) =>
                  /\ state = ROLLING_BACK
                  /\ ctx.rollout_percentage = c.rollout_percentage
            /\ c.rollout_percentage >= 100 => state = DEPLOYED

\* A rollout at 100 percent with an error rate above 0.05 was declared
\* DEPLOYED.
C21_Witness ==
    /\ AdvancedFrom(ROLLING_OUT)
    /\ last.before.ctx.rollout_percentage = 100
    /\ last.before.ctx.canary_error_rate > 50
    /\ state = DEPLOYED

C23_PausedNeedsOperator ==
    /\ state = ROLLOUT_PAUSED =>
          \A err \in ErrorRates : \A lat \in Latencies : \A t \in 0..MaxTime :
              LET paused == Pipeline(ROLLOUT_PAUSED,
                                     [ctx EXCEPT !.canary_error_rate = err,
                                                 !.canary_latency_p99 = lat],
                                     history)
              IN  advance(paused, t) = paused
    /\ AdvancedFrom(ROLLOUT_PAUSED) => Me = last.before
    /\ (last.op # "none" /\ last.before.state = ROLLOUT_PAUSED
            /\ state # ROLLOUT_PAUSED) =>
          \/ last.op = "cancel" /\ state = CANCELLED
          \/ last.op = "force_rollback" /\ state = ROLLING_BACK

\* A paused rollout was polled and stayed paused.
C23_Witness ==
    /\ AdvancedFrom(ROLLOUT_PAUSED)
    /\ last.result = ROLLOUT_PAUSED
    /\ state = ROLLOUT_PAUSED

(***************************************************************************)
(* Construction over arbitrary arguments.  The dataclass and __init__      *)
(* accept every value they are given.                                      *)
(***************************************************************************)
RawCoverages == {-10, 60, 150}
RawRollouts == {0, 130}
RawStartedAts == {None, <<0, "UTC">>}

\* The contexts a caller can construct: coverages below 0 and above 1,
\* percentages above 100, retry counts above max_retries and timestamps
\* with a timezone among them.
ArbitraryContexts ==
    { DeploymentContext(env, "4f2a9c1", hot, FALSE, cov, 10, 500, 0, maxr, retry,
                        pct, st) :
        env \in Environments, hot \in BOOLEAN, cov \in RawCoverages,
        maxr \in 0..1, retry \in 0..2, pct \in RawRollouts,
        st \in RawStartedAts }

InitArbitrary ==
    /\ \E c \in ArbitraryContexts :
          /\ state = NewPipeline(c).state
          /\ ctx = NewPipeline(c).ctx
          /\ history = NewPipeline(c).history
    /\ now = 0
    /\ last = NoCall
    /\ inflight = Idle

ArbitrarySpec == InitArbitrary /\ [][Next]_vars

\* The ranges the specification states for a context.
ValidContext(c) ==
    /\ c.test_coverage \in 0..100
    /\ c.rollout_percentage \in 0..100
    /\ c.retry_count <= c.max_retries

\* C24 as claimed: no pipeline is created over a context whose
\* test_coverage is outside [0, 1], whose rollout_percentage is outside
\* [0, 100] or whose retry_count exceeds max_retries.  A pipeline that has
\* just been constructed is in PENDING with an empty history.
C24_ConstructionValidates ==
    (state = PENDING /\ history = <<>>) => ValidContext(ctx)

\* C25 as claimed: every call of advance returns one of the 19 states and
\* raises no error.  With a started_at that carries a timezone the call
\* made in AWAITING_APPROVAL below quorum raises TypeError.
C25_AdvanceTotal ==
    last.op = "advance" => last.result \in DeploymentState

\* The pipeline after n calls of advance in a row on pipeline p, with no
\* write of a collaborator in between.
RECURSIVE AdvanceTimes(_, _)
AdvanceTimes(p, n) ==
    IF n = 0 THEN p ELSE AdvanceTimes(advance(p, now), n - 1)

\* C26: a call of advance in BUILDING yields BUILD_FAILED when commit_sha is
\* empty and TESTING otherwise; a call in BUILD_FAILED counts one more retry
\* and returns to BUILDING while retry_count < max_retries, and yields
\* CANCELLED with retry_count as it was otherwise; with an empty commit_sha
\* a pipeline in BUILDING is CANCELLED after max_retries - retry_count + 1
\* failed builds, each followed by one call in BUILD_FAILED.
C26_BuildPolicyAndRetry ==
    /\ AdvancedFrom(BUILDING) =>
          state = IF last.before.ctx.commit_sha = "" THEN BUILD_FAILED ELSE TESTING
    /\ AdvancedFrom(BUILD_FAILED) =>
          LET c == last.before.ctx
          IN  IF c.retry_count < c.max_retries
              THEN state = BUILDING /\ ctx.retry_count = c.retry_count + 1
              ELSE state = CANCELLED /\ ctx.retry_count = c.retry_count
    /\ (state = BUILDING /\ ctx.commit_sha = "") =>
          LET left == ctx.max_retries - ctx.retry_count
              end  == AdvanceTimes(Me, 2 * left + 2)
          IN  /\ end.state = CANCELLED
              /\ end.ctx.retry_count = ctx.max_retries
              /\ \A n \in 0..(2 * left + 1) :
                    AdvanceTimes(Me, n).state =
                        IF n % 2 = 0 THEN BUILDING ELSE BUILD_FAILED

\* A build without a commit was retried and given up.
C26_Witness ==
    /\ AdvancedFrom(BUILD_FAILED)
    /\ ctx.commit_sha = ""
    /\ ctx.max_retries > 0
    /\ ctx.retry_count = ctx.max_retries
    /\ Len(history) >= 3
    /\ history[Len(history) - 2] = <<BUILD_FAILED, BUILDING>>
    /\ state = CANCELLED

\* The states that report a failure.
Failures ==
    {VALIDATION_FAILED, BUILD_FAILED, TEST_FAILED, CANARY_FAILED, REJECTED}

\* C27: a call of advance in VALIDATION_FAILED, BUILD_FAILED, TEST_FAILED,
\* CANARY_FAILED or REJECTED always changes the state; calls of advance in
\* a row from any of them, the context written by the engine alone, end in
\* CANCELLED (in ROLLED_BACK from CANARY_FAILED); VALIDATION_FAILED and
\* BUILD_FAILED with no retry left go to CANCELLED at once.
C27_FailuresEndTerminal ==
    /\ (last.op = "advance" /\ last.before.state \in Failures) =>
          state # last.before.state
    /\ state \in Failures =>
          /\ advance(Me, now).state # state
          /\ AdvanceTimes(Me, 2 * MaxRetriesBound + 1).state =
                IF state = CANARY_FAILED THEN ROLLED_BACK ELSE CANCELLED
    /\ (state \in {VALIDATION_FAILED, BUILD_FAILED}
            /\ ctx.retry_count >= ctx.max_retries) =>
          advance(Me, now).state = CANCELLED

\* Failed tests surfaced as CANCELLED.
C27_Witness ==
    /\ AdvancedFrom(TEST_FAILED)
    /\ state = CANCELLED

\* The states a pipeline has been in, by its history, and is in.
Visited == {state} \cup { history[i][2] : i \in DOMAIN history }

\* C28: a pipeline whose release is a hotfix never enters DEPLOYING_CANARY,
\* CANARY_MONITORING, CANARY_FAILED or ROLLOUT_PAUSED, and one whose
\* release is a hotfix for staging never enters AWAITING_APPROVAL or
\* REJECTED either.
C28_HotfixBypass ==
    /\ ctx.is_hotfix =>
          Visited \cap {DEPLOYING_CANARY, CANARY_MONITORING, CANARY_FAILED,
                        ROLLOUT_PAUSED} = {}
    /\ (ctx.is_hotfix /\ ctx.environment = "staging") =>
          Visited \cap {AWAITING_APPROVAL, REJECTED} = {}

\* A production hotfix went from APPROVED straight to the rollout.
C28_Witness ==
    /\ AdvancedFrom(APPROVED)
    /\ ctx.is_hotfix
    /\ ctx.environment = "production"
    /\ APPROVED \in Visited
    /\ state = ROLLING_OUT

\* C29: a call of advance, cancel or force_rollback leaves every context
\* field other than retry_count and rollout_percentage as it was;
\* retry_count changes only in a call of advance that goes from
\* VALIDATION_FAILED to VALIDATING or from BUILD_FAILED to BUILDING, and
\* then by one; rollout_percentage changes only in a call of advance that
\* starts and ends in ROLLING_OUT.
C29_EngineWritesTwoFields ==
    last.op # "none" =>
        LET c == last.before.ctx
        IN  /\ ctx = [c EXCEPT !.retry_count = ctx.retry_count,
                               !.rollout_percentage = ctx.rollout_percentage]
            /\ ctx.retry_count # c.retry_count =>
                  /\ last.op = "advance"
                  /\ <<last.before.state, state>> \in
                        { <<VALIDATION_FAILED, VALIDATING>>,
                          <<BUILD_FAILED, BUILDING>> }
                  /\ ctx.retry_count = c.retry_count + 1
            /\ ctx.rollout_percentage # c.rollout_percentage =>
                  /\ last.op = "advance"
                  /\ last.before.state = ROLLING_OUT
                  /\ state = ROLLING_OUT

\* A failed build was retried and the retry counted.
C29_Witness ==
    /\ AdvancedFrom(BUILD_FAILED)
    /\ state = BUILDING
    /\ ctx.retry_count = last.before.ctx.retry_count + 1

\* The edges advance takes without looking at the context.
UnconditionalEdges ==
    { <<PENDING, VALIDATING>>, <<TEST_FAILED, CANCELLED>>,
      <<REJECTED, CANCELLED>>, <<DEPLOYING_CANARY, CANARY_MONITORING>>,
      <<CANARY_FAILED, ROLLING_BACK>>, <<ROLLING_BACK, ROLLED_BACK>> }

\* C30: whatever the context, a call of advance takes PENDING
\* to VALIDATING, TEST_FAILED to CANCELLED, REJECTED to CANCELLED,
\* DEPLOYING_CANARY to CANARY_MONITORING, CANARY_FAILED to ROLLING_BACK and
\* ROLLING_BACK to ROLLED_BACK, and leaves the context (retry_count
\* included) as it was.
C30_UnconditionalEdges ==
    /\ \A e \in UnconditionalEdges :
          LET after == advance(Pipeline(e[1], ctx, history), now)
          IN  /\ after.state = e[2]
              /\ after.ctx = ctx
    /\ \A e \in UnconditionalEdges :
          AdvancedFrom(e[1]) => state = e[2] /\ ctx = last.before.ctx

\* The canary was deployed and its monitoring began.
C30_Witness ==
    /\ AdvancedFrom(DEPLOYING_CANARY)
    /\ state = CANARY_MONITORING

\* Two contexts that differ from c in the fields the policies read: one with
\* them all at their lowest values, one with them all at their highest.
AlteredContexts(c) ==
    { [c EXCEPT !.test_coverage = 0, !.approval_count = 0,
                !.canary_error_rate = 10, !.canary_latency_p99 = 500,
                !.retry_count = 0, !.rollout_percentage = 0],
      [c EXCEPT !.test_coverage = 100, !.approval_count = MaxApprovals,
                !.canary_error_rate = 51, !.canary_latency_p99 = 1001,
                !.retry_count = c.max_retries, !.rollout_percentage = 100] }

\* C31: whether cancel and force_rollback raise, and the state they leave,
\* depend on the state alone: they are the same over a context altered in
\* coverage, approvals, canary metrics, retry_count or rollout_percentage;
\* and a call of cancel or force_rollback leaves the context as it was.
C31_OutOfBandUnconditional ==
    /\ \A d \in AlteredContexts(ctx) :
          LET other == Pipeline(state, d, history)
          IN  /\ CancelRaises(other) = CancelRaises(Me)
              /\ RollbackRaises(other) = RollbackRaises(Me)
              /\ cancel(other).state = cancel(Me).state
              /\ cancel(other).ctx = d
              /\ force_rollback(other).state = force_rollback(Me).state
              /\ force_rollback(other).ctx = d
    /\ last.op \in {"cancel", "force_rollback"} =>
          /\ ctx = last.before.ctx
          /\ last.result = "None" =>
                state = IF last.op = "cancel" THEN CANCELLED ELSE ROLLING_BACK

\* A validation that had been retried was cancelled, its retry count kept.
C31_Witness ==
    /\ last.op = "cancel"
    /\ last.result = "None"
    /\ last.before.state = VALIDATION_FAILED
    /\ ctx.retry_count > 0
    /\ ctx.retry_count = last.before.ctx.retry_count
    /\ state = CANCELLED

(***************************************************************************)
(* Two callers on one pipeline, without a lock.  A call of advance is the  *)
(* steps of its source: the read of self.state into prev (line 57), the    *)
(* branch (lines 59-125; in a retry branch the test of lines 66 and 76     *)
(* alone), the increment and assignment of a retry branch (lines 67-68 and *)
(* 77-78), and the append and return (lines 127-130).  Every step is a     *)
(* stretch of the method that can run without the other caller being       *)
(* scheduled; cancel and force_rollback run as one such stretch.           *)
(***************************************************************************)
\* Mutant of RetryAllowed: the comparison is <= where the source has <.
RetryAllowedInclusive(c) == c.retry_count <= c.max_retries

\* The test of the retry branches.
RetryAllowed(c) == c.retry_count < c.max_retries

\* Some caller other than a is inside advance.
OthersInside(a) == \E b \in Callers \ {a} : inflight.pc[b] # "idle"

\* Somebody is inside advance.
SomeInside == \E b \in Callers : inflight.pc[b] # "idle"

\* Caller a enters advance: prev = self.state.
Begin(a) ==
    /\ inflight.pc[a] = "idle"
    /\ inflight.calls < MaxCalls
    /\ inflight' = [inflight EXCEPT !.pc[a] = "branch",
                                    !.prev[a] = state,
                                    !.overlapped = @ \/ OthersInside(a),
                                    !.calls = @ + 1]
    /\ UNCHANGED <<state, ctx, history, now, last>>

\* Caller a takes the branch of the state it finds.  In a retry branch with
\* a retry left it has passed the test and not yet counted the retry.
Branch(a) ==
    /\ inflight.pc[a] = "branch"
    /\ IF state \in {VALIDATION_FAILED, BUILD_FAILED} /\ RetryAllowed(ctx)
       THEN /\ inflight' = [inflight EXCEPT
                               !.pc[a] = "increment",
                               !.again[a] = IF state = VALIDATION_FAILED
                                            THEN VALIDATING
                                            ELSE BUILDING]
            /\ UNCHANGED <<state, ctx>>
       ELSE /\ state' = Transition(state, ctx, now).state
            /\ ctx' = Transition(state, ctx, now).ctx
            /\ inflight' = [inflight EXCEPT !.pc[a] = "record"]
    /\ UNCHANGED <<history, now, last>>

\* Caller a counts the retry and assigns the state to return to.
Increment(a) ==
    /\ inflight.pc[a] = "increment"
    /\ ctx' = [ctx EXCEPT !.retry_count = @ + 1]
    /\ state' = inflight.again[a]
    /\ inflight' = [inflight EXCEPT !.pc[a] = "record", !.again[a] = PENDING]
    /\ UNCHANGED <<history, now, last>>

\* Caller a appends the entry if self.state differs from its prev, and
\* returns.
Return(a) ==
    /\ inflight.pc[a] = "record"
    /\ history' = Record(history, inflight.prev[a], state)
    /\ inflight' = [inflight EXCEPT !.pc[a] = "idle", !.prev[a] = PENDING]
    /\ UNCHANGED <<state, ctx, now, last>>

\* A call of cancel, possibly while a caller is inside advance.
CancelMeanwhile ==
    /\ IF CancelRaises(Me)
       THEN UNCHANGED <<state, ctx, history>>
       ELSE Install(cancel(Me))
    /\ inflight.calls < MaxCalls
    /\ inflight' = [inflight EXCEPT !.overlapped = @ \/ SomeInside,
                                    !.calls = @ + 1]
    /\ UNCHANGED <<now, last>>

\* A call of force_rollback, possibly while a caller is inside advance.
ForceRollbackMeanwhile ==
    /\ IF RollbackRaises(Me)
       THEN UNCHANGED <<state, ctx, history>>
       ELSE Install(force_rollback(Me))
    /\ inflight.calls < MaxCalls
    /\ inflight' = [inflight EXCEPT !.overlapped = @ \/ SomeInside,
                                    !.calls = @ + 1]
    /\ UNCHANGED <<now, last>>

\* Staging releases with no retry used, the commit present or not.
ConcurrentContexts ==
    { DeploymentContext("staging", sha, FALSE, FALSE, cov, 10, 500, 0, maxr, 0,
                        0, None) :
        sha \in CommitShas, cov \in {39, 40}, maxr \in 0..1 }

InitConcurrent ==
    /\ \E c \in ConcurrentContexts :
          /\ state = NewPipeline(c).state
          /\ ctx = NewPipeline(c).ctx
          /\ history = NewPipeline(c).history
    /\ now = 0
    /\ last = NoCall
    /\ inflight = Idle

NextConcurrent ==
    \/ \E a \in Callers : Begin(a)
    \/ \E a \in Callers : Branch(a)
    \/ \E a \in Callers : Increment(a)
    \/ \E a \in Callers : Return(a)
    \/ CancelMeanwhile
    \/ ForceRollbackMeanwhile

ConcurrentSpec == InitConcurrent /\ [][NextConcurrent]_vars

\* Each entry of h starts in the state the entry before it ended in.
Chained(h) == \A i \in 2..Len(h) : h[i][1] = h[i - 1][2]

\* C32: without a lock, a retry_count above max_retries and a history entry
\* that does not start where the entry before it ended are reached only in
\* runs where a call began or ran while another caller was inside advance;
\* runs whose calls were made one at a time reach neither.
C32_SerializationNeeded ==
    (ctx.retry_count > ctx.max_retries \/ ~Chained(history)) =>
        inflight.overlapped

\* Two interleaved callers have counted one retry too many and have written
\* an entry that does not continue the one before it.
C32_Witness ==
    /\ inflight.overlapped
    /\ ctx.retry_count > ctx.max_retries
    /\ ~Chained(history)

\* C33: a pipeline with an empty history is in PENDING; otherwise the first
\* entry starts in PENDING, each entry starts in the state the entry before
\* it ended in, and the last entry ends in the current state.
C33_HistoryChain ==
    IF history = <<>>
    THEN state = PENDING
    ELSE /\ history[1][1] = PENDING
         /\ \A i \in 2..Len(history) : history[i][1] = history[i - 1][2]
         /\ history[Len(history)][2] = state

\* The chain runs through calls of advance and a call of force_rollback.
C33_Witness ==
    /\ last.op = "advance"
    /\ Len(history) >= 4
    /\ \E i \in DOMAIN history : history[i][2] = ROLLING_BACK
    /\ \E i \in DOMAIN history : history[i][1] = DEPLOYED
    /\ state = ROLLED_BACK

\* C34: DEPLOYED is entered from ROLLING_OUT alone and only by a pipeline
\* that has been in APPROVED; ROLLING_OUT is entered only from APPROVED and
\* from CANARY_MONITORING; APPROVED is entered only by a call of advance in
\* AWAITING_APPROVAL with approval_count >= quorum, or in TESTING for a
\* hotfix for staging.
C34_NoReleaseWithoutApproval ==
    /\ state = DEPLOYED => APPROVED \in Visited
    /\ \A i \in DOMAIN history :
          /\ (history[i][2] = DEPLOYED /\ history[i][1] # DEPLOYED) =>
                history[i][1] = ROLLING_OUT
          /\ (history[i][2] = ROLLING_OUT /\ history[i][1] # ROLLING_OUT) =>
                history[i][1] \in {APPROVED, CANARY_MONITORING}
    /\ (last.op # "none" /\ state = APPROVED
            /\ last.before.state # APPROVED) =>
          LET c == last.before.ctx
          IN  /\ last.op = "advance"
              /\ \/ /\ last.before.state = AWAITING_APPROVAL
                    /\ c.approval_count >= Quorum(c)
                 \/ /\ last.before.state = TESTING
                    /\ c.is_hotfix
                    /\ c.environment = "staging"

\* A release that had waited for its approvals was deployed.
C34_Witness ==
    /\ AdvancedFrom(ROLLING_OUT)
    /\ state = DEPLOYED
    /\ {AWAITING_APPROVAL, APPROVED} \subseteq Visited
    /\ ctx.approval_count >= Quorum(ctx)

\* C35: a production release that is not a hotfix enters ROLLING_OUT only
\* by a call of advance in CANARY_MONITORING with an error rate of at most
\* 0.01 and a p99 latency of at most 500; when it is in ROLLING_OUT or
\* DEPLOYED it has been through CANARY_MONITORING.
C35_CanaryNotSkipped ==
    (ctx.environment = "production" /\ ~ctx.is_hotfix) =>
        /\ state \in {ROLLING_OUT, DEPLOYED} => CANARY_MONITORING \in Visited
        /\ \A i \in DOMAIN history :
              (history[i][2] = ROLLING_OUT /\ history[i][1] # ROLLING_OUT) =>
                  history[i][1] = CANARY_MONITORING
        /\ (last.op # "none" /\ state = ROLLING_OUT
                /\ last.before.state # ROLLING_OUT) =>
              /\ AdvancedFrom(CANARY_MONITORING)
              /\ last.before.ctx.canary_error_rate <= 10
              /\ last.before.ctx.canary_latency_p99 <= 500

\* A production release passed its canary and began to roll out.
C35_Witness ==
    /\ AdvancedFrom(CANARY_MONITORING)
    /\ ctx.environment = "production"
    /\ ~ctx.is_hotfix
    /\ state = ROLLING_OUT

\* C36: a pipeline that has been in ROLLOUT_PAUSED is in ROLLOUT_PAUSED,
\* CANCELLED, ROLLING_BACK or ROLLED_BACK, and has never been in
\* ROLLING_OUT or DEPLOYED.
C36_PausedNeverCompletes ==
    ROLLOUT_PAUSED \in Visited =>
        /\ state \in {ROLLOUT_PAUSED, CANCELLED, ROLLING_BACK, ROLLED_BACK}
        /\ Visited \cap {ROLLING_OUT, DEPLOYED} = {}

\* A paused rollout was rolled back by force, to the end.
C36_Witness ==
    /\ ROLLOUT_PAUSED \in Visited
    /\ AdvancedFrom(ROLLING_BACK)
    /\ state = ROLLED_BACK

(***************************************************************************)
(* The pipeline over a context whose test_coverage nobody writes after     *)
(* construction.                                                           *)
(***************************************************************************)
NextFixedCoverage ==
    \/ Advance
    \/ Cancel
    \/ ForceRollback
    \/ Approve
    \/ ProbeErrorRate
    \/ ProbeLatency

FixedCoverageSpec == Init /\ [][NextFixedCoverage]_vars

\* C37: with test_coverage as it was at construction, a pipeline never
\* enters TEST_FAILED.
C37_TestFailedUnreachable == TEST_FAILED \notin Visited

\* A production release, validated with a coverage of at least 0.6, passed
\* its tests.
C37_Witness ==
    /\ AdvancedFrom(TESTING)
    /\ ctx.environment = "production"
    /\ ctx.test_coverage >= 60
    /\ state = AWAITING_APPROVAL

(***************************************************************************)
(* One caller polling advance, the context left to the engine.             *)
(***************************************************************************)
\* Contexts that take the pipeline down every path of advance without a
\* write from outside: approvals given or not, a canary that passes, is slow
\* or fails.
PollingContexts ==
    { DeploymentContext(env, sha, hot, mig, cov, err, lat, app, maxr, retry, 0, st) :
        env \in Environments, sha \in CommitShas, hot \in BOOLEAN,
        mig \in BOOLEAN, cov \in {39, 80}, err \in {10, 51}, lat \in {500, 1000},
        app \in {0, MaxApprovals}, maxr \in 0..MaxRetriesBound,
        retry \in 0..MaxRetriesBound, st \in StartedAts }

InitPolling ==
    /\ \E c \in PollingContexts :
          /\ c.retry_count <= c.max_retries
          /\ state = NewPipeline(c).state
          /\ ctx = NewPipeline(c).ctx
          /\ history = NewPipeline(c).history
    /\ now = 0
    /\ last = NoCall
    /\ inflight = Idle

PollingSpec == InitPolling /\ [][Advance]_vars /\ WF_vars(Advance)

\* A call of advance now would leave the pipeline as it is.
Settled == advance(Me, now) = Me

\* C38: under repeated calls of advance alone the pipeline settles again and
\* again; where it is settled it is in DEPLOYED, ROLLED_BACK, CANCELLED,
\* AWAITING_APPROVAL or ROLLOUT_PAUSED; and the state has changed at most
\* 10 + 2 * max_retries times.
C38_AdvanceSettles ==
    /\ [](Settled => state \in {DEPLOYED, ROLLED_BACK, CANCELLED,
                                AWAITING_APPROVAL, ROLLOUT_PAUSED})
    /\ [](Len(history) <= 10 + 2 * ctx.max_retries)
    /\ []<>Settled

\* A release whose canary was slow came to rest in ROLLOUT_PAUSED.
C38_Witness ==
    /\ AdvancedFrom(ROLLOUT_PAUSED)
    /\ Settled
    /\ state = ROLLOUT_PAUSED

\* C39: a pipeline that has been in ROLLING_BACK is in ROLLING_BACK or
\* ROLLED_BACK ever after; in ROLLING_BACK cancel raises and force_rollback
\* keeps ROLLING_BACK; ROLLED_BACK is entered only by a call of advance in
\* ROLLING_BACK.
C39_RollbackNotDiverted ==
    /\ \A i \in DOMAIN history :
          /\ history[i][1] = ROLLING_BACK =>
                history[i][2] \in {ROLLING_BACK, ROLLED_BACK}
          /\ history[i][2] = ROLLED_BACK => history[i][1] = ROLLING_BACK
    /\ ROLLING_BACK \in Visited => state \in {ROLLING_BACK, ROLLED_BACK}
    /\ (last.op = "cancel" /\ last.before.state = ROLLING_BACK) =>
          last.result = "ValueError" /\ state = ROLLING_BACK
    /\ (last.op = "force_rollback" /\ last.before.state = ROLLING_BACK) =>
          state = ROLLING_BACK
    /\ (last.op # "none" /\ state = ROLLED_BACK
            /\ last.before.state # ROLLED_BACK) =>
          AdvancedFrom(ROLLING_BACK)

\* A cancel was tried on a rollback under way, and raised.
C39_Witness ==
    /\ last.op = "cancel"
    /\ last.before.state = ROLLING_BACK
    /\ last.result = "ValueError"
    /\ state = ROLLING_BACK

====
